---- MODULE Spec2Model ----
(***************************************************************************)
(* Instrument persistence layer of the portfolio-management backend:       *)
(* InstrumentService (create / get / list / update / delete) on top of the *)
(* single-table SQLite store behind DatabaseConnection.                    *)
(*                                                                         *)
(* The instrument table has 38 columns; the model keeps one column of each *)
(* class the service treats differently:                                   *)
(*   instrument_id         primary key, assigned by the store              *)
(*   isin                  optional text with a uniqueness constraint      *)
(*   instrument_type       required classification (original_currency and *)
(*                         interest_currency are handled by the same code) *)
(*   sector                plain optional value, passed through unchanged  *)
(*                         (as all other text and numeric columns are)     *)
(*   statistical_currency  optional currency, empty read back as absent    *)
(*   last_price_date       date, stored as ISO text and parsed on reading  *)
(*                         (as the other seven date columns are)           *)
(*   created_at/updated_at timestamps set by the store                     *)
(***************************************************************************)
EXTENDS Integers, Sequences, FiniteSets, TLC

VARIABLES
    instrument,      \* the rows of table instrument (a set of row records)
    now,             \* the store's clock, in seconds
    op,              \* the service call that ran last
    arg_id,          \* its instrument_id argument (0 when it has none)
    arg,             \* its InstrumentCreate / InstrumentUpdate argument
    ret,             \* what it returned or raised
    created,         \* what the last create_instrument returned, for as long as
                     \* no other create, update or delete call has run since
    lastrowid,       \* cursor.lastrowid as the connection's last execute_update
                     \* returned it (0 on a connection that has not written)
    call,            \* per concurrent caller: the service call it is in or has
                     \* last finished, and where in that call it is
    race,            \* the two update_instrument calls of one stored id that
                     \* overlap, if the calls running now are such a pair
    schema_dir,      \* the schema directory: whether it exists, and its *.sql
                     \* files by name
    schema_files,    \* init_database: the file names as sorted
    file_no,         \* init_database: position of the file being executed
    stmt_no,         \* init_database: position of the statement being executed
    applied,         \* the statements committed to the database, in order
    init_pc,         \* init_database: where it is
    init_ret         \* init_database: what it returned

\* the variables of the one-call-at-a-time specification
callvars == <<op, arg_id, arg, ret, created, lastrowid>>

\* the variables of the concurrent callers
concurrent == <<call, race>>

\* the variables of schema initialisation
initdb == <<schema_dir, schema_files, file_no, stmt_no, applied, init_pc, init_ret>>

vars ==
    <<instrument, now, op, arg_id, arg, ret, created, lastrowid, call, race,
      schema_dir, schema_files, file_no, stmt_no, applied, init_pc, init_ret>>

\* ------------------------------------------------------------------ bounds

MaxId == 2
MaxTime == 1

\* ------------------------------------------------------------------ values

\* Python None and SQL NULL (sqlite3 maps one to the other)
None == "None"

NoArg == <<>>

InstrumentType_values == {"Equity", "Bond", "ETF", "Future"}

Currency_values == {"CHF", "EUR", "USD"}

\* ISO-8601 texts of the dates callers supply
DateTexts == {"2024-01-15"}

date_fromisoformat(s) == "date(" \o s \o ")"

isoformat(d) == CHOOSE s \in DateTexts : date_fromisoformat(s) = d

\* CURRENT_TIMESTAMP of the store at clock value t: 'YYYY-MM-DD HH:MM:SS'
CURRENT_TIMESTAMP(t) == "2024-01-01 00:00:0" \o ToString(t)

TimestampTexts == {CURRENT_TIMESTAMP(t) : t \in 0..(MaxTime + 1)}

datetime_fromisoformat(s) == "datetime(" \o s \o ")"

\* python truthiness of an optional string
Truthy(v) == v # None /\ v # ""

\* ------------------------------------------------------------------ inputs

\* the columns a caller supplies, in the order of the INSERT / field_mapping
Fields == <<"isin", "instrument_type", "sector", "statistical_currency", "last_price_date">>

FieldSet == {Fields[i] : i \in 1..Len(Fields)}

\* the creation requests callers send: every field supplied, only the required
\* ones (with an empty statistical currency), a type outside the enumeration,
\* an empty type
FullData ==
    [isin |-> "US0378331005", instrument_type |-> "Equity", sector |-> "Technology",
     statistical_currency |-> "USD", last_price_date |-> date_fromisoformat("2024-01-15")]

MinimalData ==
    [isin |-> None, instrument_type |-> "Equity", sector |-> None,
     statistical_currency |-> "", last_price_date |-> None]

CreateInputs ==
    {FullData, MinimalData,
     [MinimalData EXCEPT !.instrument_type = "stock", !.statistical_currency = None],
     [MinimalData EXCEPT !.instrument_type = "", !.statistical_currency = None]}

\* the partial updates callers send: nothing supplied, one field, several fields,
\* the unique code, an empty type, an empty statistical currency
\* the query parameters of a list request: the defaults, a type filter, a
\* sector filter on a page of one, an empty sector filter, the second page of one
NoFilter == [instrument_type |-> None, sector |-> None, limit |-> 100, offset |-> 0]

ListInputs ==
    {NoFilter,
     [NoFilter EXCEPT !.instrument_type = "Equity"],
     [NoFilter EXCEPT !.sector = "Technology", !.limit = 1],
     [NoFilter EXCEPT !.sector = ""],
     [NoFilter EXCEPT !.limit = 1, !.offset = 1]}

NoFields ==
    [isin |-> None, instrument_type |-> None, sector |-> None,
     statistical_currency |-> None, last_price_date |-> None]

UpdateInputs ==
    {NoFields,
     [NoFields EXCEPT !.sector = "Updated Sector"],
     [NoFields EXCEPT !.sector = "Technology",
                      !.last_price_date = date_fromisoformat("2024-01-15")],
     [NoFields EXCEPT !.isin = "US0378331005"],
     [NoFields EXCEPT !.instrument_type = ""],
     [NoFields EXCEPT !.statistical_currency = ""]}

IdInputs == 1..MaxId

\* the callers whose calls interleave (one connection each, as every request
\* constructs its own InstrumentService)
Callers == {"A", "B"}

NoRace == [id |-> 0]

\* what concurrent callers send
ConcurrentCreateInputs == {FullData, [MinimalData EXCEPT !.statistical_currency = None]}

ConcurrentUpdateInputs ==
    {NoFields,
     [NoFields EXCEPT !.sector = "Updated Sector"],
     [NoFields EXCEPT !.last_price_date = date_fromisoformat("2024-01-15")],
     [NoFields EXCEPT !.sector = "Technology",
                      !.last_price_date = date_fromisoformat("2024-01-15")]}

\* ------------------------------------------------------------------ store

Max(S) == IF S = {} THEN 0 ELSE CHOOSE m \in S : \A x \in S : x <= m

RowIds(tbl) == {r.instrument_id : r \in tbl}

\* the rowid the store assigns to the next inserted row: one more than the
\* largest rowid in the table
NextRowId(tbl) == Max(RowIds(tbl)) + 1

\* UNIQUE(isin): NULLs never collide
UniqueViolation(tbl, isin, id) ==
    isin # None /\ \E r \in tbl : r.instrument_id # id /\ r.isin = isin

\* created_at / updated_at DEFAULT CURRENT_TIMESTAMP
DefaultTimestamp(t) == CURRENT_TIMESTAMP(t)

\* INSERT INTO instrument (...) VALUES (params)
SqlInsert(tbl, params, id, t) ==
    tbl \cup {[instrument_id |-> id,
               isin |-> params.isin,
               instrument_type |-> params.instrument_type,
               sector |-> params.sector,
               statistical_currency |-> params.statistical_currency,
               last_price_date |-> params.last_price_date,
               created_at |-> DefaultTimestamp(t),
               updated_at |-> DefaultTimestamp(t)]}

\* SELECT ... FROM instrument WHERE instrument_id = ?
execute_query_by_id(tbl, id) == {r \in tbl : r.instrument_id = id}

RECURSIVE SortById(_)
SortById(S) ==
    IF S = {} THEN <<>>
    ELSE LET m == CHOOSE r \in S : \A q \in S : r.instrument_id <= q.instrument_id
         IN  <<m>> \o SortById(S \ {m})

\* SELECT ... FROM instrument ORDER BY instrument_id
execute_query_all(tbl) == SortById(tbl)

\* a DELETE without its WHERE clause
SqlDelete_all(tbl, id) == {}

\* DELETE FROM instrument WHERE instrument_id = ?
SqlDelete(tbl, id) == {r \in tbl : r.instrument_id # id}

\* UPDATE instrument SET <sets>, updated_at = CURRENT_TIMESTAMP WHERE instrument_id = ?
\* sets is the sequence of <<column, value>> pairs of the statement
RECURSIVE ApplySets(_, _)
ApplySets(row, sets) ==
    IF sets = <<>> THEN row
    ELSE ApplySets([row EXCEPT ![Head(sets)[1]] = Head(sets)[2]], Tail(sets))

SetsIsin(sets) == {sets[i][2] : i \in {j \in 1..Len(sets) : sets[j][1] = "isin"}}

SqlUpdateFails(tbl, sets, id) ==
    /\ execute_query_by_id(tbl, id) # {}
    /\ \E v \in SetsIsin(sets) : UniqueViolation(tbl, v, id)

\* an UPDATE that refreshes created_at as well
SqlUpdate_touch_created(tbl, sets, id, t) ==
    {IF r.instrument_id = id
        THEN [ApplySets(r, sets) EXCEPT !.updated_at = CURRENT_TIMESTAMP(t),
                                        !.created_at = CURRENT_TIMESTAMP(t)]
        ELSE r : r \in tbl}

\* an UPDATE without the updated_at refresh
SqlUpdate_norefresh(tbl, sets, id, t) ==
    {IF r.instrument_id = id THEN ApplySets(r, sets) ELSE r : r \in tbl}

\* an UPDATE that writes every column of the row, NULL where the statement
\* names no value
SetValue(sets, f, default) ==
    LET at == {i \in 1..Len(sets) : sets[i][1] = f}
    IN  IF at = {} THEN default ELSE sets[CHOOSE i \in at : TRUE][2]

SqlUpdate_whole_row(tbl, sets, id, t) ==
    {IF r.instrument_id = id
        THEN [instrument_id |-> r.instrument_id,
              isin |-> SetValue(sets, "isin", None),
              instrument_type |-> SetValue(sets, "instrument_type", r.instrument_type),
              sector |-> SetValue(sets, "sector", None),
              statistical_currency |-> SetValue(sets, "statistical_currency", None),
              last_price_date |-> SetValue(sets, "last_price_date", None),
              created_at |-> r.created_at,
              updated_at |-> CURRENT_TIMESTAMP(t)]
        ELSE r : r \in tbl}

\* an UPDATE that fills a column only where it holds NULL
\* (SET col = COALESCE(col, ?)): the first value written stays
RECURSIVE CoalesceSets(_, _)
CoalesceSets(row, sets) ==
    IF sets = <<>> THEN row
    ELSE CoalesceSets(IF row[Head(sets)[1]] = None
                         THEN [row EXCEPT ![Head(sets)[1]] = Head(sets)[2]]
                         ELSE row,
                      Tail(sets))

SqlUpdate_coalesce(tbl, sets, id, t) ==
    {IF r.instrument_id = id
        THEN [CoalesceSets(r, sets) EXCEPT !.updated_at = CURRENT_TIMESTAMP(t)]
        ELSE r : r \in tbl}

SqlUpdate(tbl, sets, id, t) ==
    {IF r.instrument_id = id
        THEN [ApplySets(r, sets) EXCEPT !.updated_at = CURRENT_TIMESTAMP(t)]
        ELSE r : r \in tbl}

\* DatabaseConnection.execute_update returns cursor.lastrowid: the rowid of the
\* row an INSERT has added; any other statement leaves it at the rowid of the
\* connection's last INSERT
cursor_lastrowid(statement, rowid, last) == IF statement = "INSERT" THEN rowid ELSE last

\* ---------------------------------------------------------------- service

Raised(e) == [kind |-> "error", error |-> e]

\* the ValueError of _row_to_instrument: its message carries the row's id
ValueError(row) == [kind |-> "error", error |-> "ValueError", row |-> row.instrument_id]

NotFound == [kind |-> "none"]

Record(rec) == [kind |-> "record", rec |-> rec]

Bool(b) == [kind |-> "bool", value |-> b]

parse_datetime(dt_str) ==
    IF ~Truthy(dt_str) THEN None
    ELSE IF dt_str \in TimestampTexts THEN datetime_fromisoformat(dt_str)
    ELSE None

parse_date(d_str) ==
    IF ~Truthy(d_str) THEN None
    ELSE IF d_str \in DateTexts THEN date_fromisoformat(d_str)
    ELSE None

\* the required classification columns: a value of the enumeration becomes the
\* enumeration member (a str equal to the value), a falsy one raises, any other
\* value is passed on as it is
RequiredFails(v) == ~(Truthy(v) /\ v \in InstrumentType_values) /\ ~Truthy(v)

\* InstrumentResponse(...) rejects a missing created_at / updated_at
ResponseInvalid(created_at, updated_at) == created_at = None \/ updated_at = None

row_to_instrument(row) ==
    LET statistical_currency_val ==
            IF Truthy(row.statistical_currency) THEN row.statistical_currency ELSE None
        created_at == parse_datetime(row.created_at)
        updated_at == parse_datetime(row.updated_at)
    IN  IF RequiredFails(row.instrument_type) THEN ValueError(row)
        ELSE IF ResponseInvalid(created_at, updated_at) THEN ValueError(row)
        ELSE Record([instrument_id |-> row.instrument_id,
                     isin |-> row.isin,
                     instrument_type |-> row.instrument_type,
                     sector |-> row.sector,
                     statistical_currency |-> statistical_currency_val,
                     last_price_date |-> parse_date(row.last_price_date),
                     created_at |-> created_at,
                     updated_at |-> updated_at])

get_instrument(tbl, instrument_id) ==
    LET rows == execute_query_by_id(tbl, instrument_id)
    IN  IF rows = {} THEN NotFound
        ELSE row_to_instrument(CHOOSE r \in rows : TRUE)

RECURSIVE ConvertAll(_)
ConvertAll(rows) ==
    IF rows = <<>> THEN <<>>
    ELSE <<row_to_instrument(Head(rows))>> \o ConvertAll(Tail(rows))

\* get_instruments skipping the rows that fail conversion
get_instruments_partial(tbl) ==
    LET out == ConvertAll(execute_query_all(tbl))
        good == SelectSeq(out, LAMBDA o : o.kind = "record")
    IN  [kind |-> "list", items |-> [i \in 1..Len(good) |-> good[i].rec]]

get_instruments(tbl) ==
    LET out == ConvertAll(execute_query_all(tbl))
        bad == {i \in 1..Len(out) : out[i].kind = "error"}
    IN  IF bad # {} THEN out[Max({i \in bad : \A j \in bad : i <= j})]
        ELSE [kind |-> "list", items |-> [i \in 1..Len(out) |-> out[i].rec]]

\* the parameter tuple of the INSERT
InsertParams(fields) ==
    [isin |-> fields.isin,
     instrument_type |-> fields.instrument_type,
     sector |-> fields.sector,
     statistical_currency |-> fields.statistical_currency,
     last_price_date |->
        IF fields.last_price_date # None THEN isoformat(fields.last_price_date) ELSE None]

\* the field_mapping of update_instrument
field_mapping(patch) ==
    [isin |-> patch.isin,
     instrument_type |-> patch.instrument_type,
     sector |-> patch.sector,
     statistical_currency |-> patch.statistical_currency,
     last_price_date |->
        IF patch.last_price_date # None THEN isoformat(patch.last_price_date) ELSE None]

\* a filter that lets None through
Included_always(value) == TRUE

\* "Only include fields that are not None"
Included(value) == value # None

\* updates without the "is not None" filter: every column is written
updates_all(patch) ==
    LET m == field_mapping(patch)
    IN  [i \in 1..Len(Fields) |-> <<Fields[i], m[Fields[i]]>>]

\* updates with the primary key among the written columns
updates_with_id(patch) ==
    LET m == field_mapping(patch)
        keep == SelectSeq(Fields, LAMBDA f : Included(m[f]))
    IN  IF keep = <<>> THEN <<>>
        ELSE <<<<"instrument_id", MaxId>>>> \o [i \in 1..Len(keep) |-> <<keep[i], m[keep[i]]>>]

updates(patch) ==
    LET m == field_mapping(patch)
        keep == SelectSeq(Fields, LAMBDA f : Included(m[f]))
    IN  [i \in 1..Len(keep) |-> <<keep[i], m[keep[i]]>>]

\* InstrumentUpdate parsed from a request body, a sequence of <<field, value>>
\* pairs in the order the caller wrote them: every field is optional and
\* defaults to None
InstrumentUpdate(body) ==
    [f \in FieldSet |->
        IF \E i \in 1..Len(body) : body[i][1] = f
        THEN body[CHOOSE i \in 1..Len(body) : body[i][1] = f][2]
        ELSE None]

\* a statement built by walking the request body in the caller's order
update_statement_caller_order(body, instrument_id) ==
    LET m == field_mapping(InstrumentUpdate(body))
        keep == SelectSeq(body, LAMBDA pair : Included(m[pair[1]]))
    IN  [columns |-> [i \in 1..Len(keep) |-> keep[i][1]] \o <<"updated_at">>,
         params |-> [i \in 1..Len(keep) |-> m[keep[i][1]]] \o <<instrument_id>>]

\* the UPDATE statement of update_instrument: the SET columns, closed by
\* "updated_at = CURRENT_TIMESTAMP", and the parameter list, closed by the id
update_statement(body, instrument_id) ==
    LET sets == updates(InstrumentUpdate(body))
    IN  [columns |-> [i \in 1..Len(sets) |-> sets[i][1]] \o <<"updated_at">>,
         params |-> [i \in 1..Len(sets) |-> sets[i][2]] \o <<instrument_id>>]

\* create_instrument answering with the request's own values instead of reading
\* the inserted row back
create_instrument_echo(tbl, fields, t) ==
    LET params == InsertParams(fields)
        instrument_id == NextRowId(tbl)
    IN  IF UniqueViolation(tbl, params.isin, 0)
        THEN [tbl |-> tbl, ret |-> Raised("IntegrityError")]
        ELSE [tbl |-> SqlInsert(tbl, params, instrument_id, t),
              ret |-> Record([instrument_id |-> instrument_id,
                              isin |-> fields.isin,
                              instrument_type |-> fields.instrument_type,
                              sector |-> fields.sector,
                              statistical_currency |-> fields.statistical_currency,
                              last_price_date |-> fields.last_price_date,
                              created_at |-> datetime_fromisoformat(CURRENT_TIMESTAMP(t)),
                              updated_at |-> datetime_fromisoformat(CURRENT_TIMESTAMP(t))])]

\* create_instrument catching the store's error and returning None
create_instrument_swallow(tbl, fields, t) ==
    LET params == InsertParams(fields)
        instrument_id == NextRowId(tbl)
        stored == SqlInsert(tbl, params, instrument_id, t)
    IN  IF UniqueViolation(tbl, params.isin, 0)
        THEN [tbl |-> tbl, ret |-> NotFound]
        ELSE [tbl |-> stored, ret |-> get_instrument(stored, instrument_id)]

\* create_instrument: one INSERT, committed, then the row is read back by its id
create_instrument(tbl, fields, t) ==
    LET params == InsertParams(fields)
        instrument_id == NextRowId(tbl)
        stored == SqlInsert(tbl, params, instrument_id, t)
    IN  IF UniqueViolation(tbl, params.isin, 0)
        THEN [tbl |-> tbl, ret |-> Raised("IntegrityError")]
        ELSE [tbl |-> stored, ret |-> get_instrument(stored, instrument_id)]

\* update_instrument: no statement when nothing is supplied, else one UPDATE,
\* committed, then the row is read back by its id
update_instrument(tbl, instrument_id, patch, t) ==
    LET sets == updates(patch)
        stored == SqlUpdate(tbl, sets, instrument_id, t)
    IN  IF sets = <<>>
        THEN [tbl |-> tbl, ret |-> get_instrument(tbl, instrument_id)]
        ELSE IF SqlUpdateFails(tbl, sets, instrument_id)
        THEN [tbl |-> tbl, ret |-> Raised("IntegrityError")]
        ELSE [tbl |-> stored, ret |-> get_instrument(stored, instrument_id)]

\* delete_instrument without the existence check
delete_instrument_nocheck(tbl, instrument_id) ==
    [tbl |-> SqlDelete(tbl, instrument_id), ret |-> Bool(TRUE)]

\* delete_instrument: existence check through get_instrument, then one DELETE
delete_instrument(tbl, instrument_id) ==
    LET found == get_instrument(tbl, instrument_id)
    IN  IF found.kind = "error" THEN [tbl |-> tbl, ret |-> found]
        ELSE IF found.kind = "none" THEN [tbl |-> tbl, ret |-> Bool(FALSE)]
        ELSE [tbl |-> SqlDelete(tbl, instrument_id), ret |-> Bool(TRUE)]

\* ------------------------------------------------------------ HTTP routes

\* str(e) of the exception a service call raised
str(e) ==
    IF e.error = "IntegrityError" THEN "UNIQUE constraint failed: instrument.isin"
    ELSE "Error converting database row to InstrumentResponse: (row: "
            \o ToString(e.row) \o ")"

\* HTTPException(status_code, detail); an f-string detail is kept as the
\* sequence of its parts
HTTPException(status_code, detail) == [status_code |-> status_code, detail |-> detail]

Response(status_code, body) == [status_code |-> status_code, body |-> body]

\* instruments[offset:offset + limit]
Slice(items, offset, limit) ==
    LET last == IF offset + limit < Len(items) THEN offset + limit ELSE Len(items)
    IN  IF offset >= last THEN <<>>
        ELSE [i \in 1..(last - offset) |-> items[offset + i]]

\* "if instrument_type:", "if sector:": a filter applies when its value is truthy
FilterSet(value) == Truthy(value)

\* GET /instruments/: the whole get_instruments result, filtered and then
\* sliced; query holds the parameters instrument_type, sector, limit, offset
\* (the country filter has the shape of the sector filter)
list_instruments(query, result) ==
    IF result.kind = "error"
    THEN HTTPException(500, <<"Failed to retrieve instruments. Please check server logs for details. Error: ",
                               str(result)>>)
    ELSE LET by_type == IF FilterSet(query.instrument_type)
                        THEN SelectSeq(result.items,
                                       LAMBDA i : i.instrument_type = query.instrument_type)
                        ELSE result.items
             by_sector == IF FilterSet(query.sector)
                          THEN SelectSeq(by_type, LAMBDA i : i.sector = query.sector)
                          ELSE by_type
         IN  Response(200, Slice(by_sector, query.offset, query.limit))

\* GET /instruments/{instrument_id}
get_instrument_route(instrument_id, result) ==
    IF result.kind = "error"
    THEN HTTPException(500, <<"Failed to retrieve instrument. Please check server logs for details. Error: ",
                               str(result)>>)
    ELSE IF result.kind = "none"
    THEN HTTPException(404, <<"Instrument not found">>)
    ELSE Response(200, result.rec)

\* POST /instruments/
create_instrument_route(result) ==
    IF result.kind = "error"
    THEN HTTPException(400, <<"Failed to create instrument. Please check the request data and try again. Error: ",
                               str(result)>>)
    ELSE IF result.kind = "none"
    THEN HTTPException(400, <<"Failed to create instrument. Please check the request data and try again. Error: ",
                               "'NoneType' object has no attribute 'instrument_id'">>)
    ELSE Response(201, result.rec)

\* PUT /instruments/{instrument_id}
update_instrument_route(instrument_id, result) ==
    IF result.kind = "error"
    THEN HTTPException(500, <<"Failed to update instrument. Please check server logs for details. Error: ",
                               str(result)>>)
    ELSE IF result.kind = "none"
    THEN HTTPException(404, <<"Instrument not found">>)
    ELSE Response(200, result.rec)

\* DELETE /instruments/{instrument_id}
delete_instrument_route(instrument_id, result) ==
    IF result.kind = "error"
    THEN HTTPException(500, <<"Failed to delete instrument. Please check server logs for details. Error: ",
                               str(result)>>)
    ELSE IF result = Bool(FALSE)
    THEN HTTPException(404, <<"Instrument not found">>)
    ELSE Response(204, None)

\* the response of the route that made service call o with outcome result
route(o, instrument_id, request, result) ==
    CASE o = "list" -> list_instruments(request, result)
      [] o = "get" -> get_instrument_route(instrument_id, result)
      [] o = "create" -> create_instrument_route(result)
      [] o = "update" -> update_instrument_route(instrument_id, result)
      [] o = "delete" -> delete_instrument_route(instrument_id, result)

\* ------------------------------------------------------------ state machine

\* a caller that is in no call and has made none
Idle ==
    [pc |-> "idle", op |-> "none", id |-> 0, patch |-> NoArg, rows |-> 0,
     overtaken |-> FALSE, ret |-> NotFound]

\* ------------------------------------------------------ schema initialisation
\* init_db.py: init_database runs the *.sql files of the schema directory.
\* A file name is the sequence of its leading digits ("10_..." is <<1, 0>>);
\* a file's text is a sequence of chunks, each with a closing semicolon or
\* (the last one only) without, each accepted or rejected by the database.

MaxStatements == 2

FileNames == {<<1, 0>>, <<2>>}

Chunks == [fails : BOOLEAN, semicolon : BOOLEAN]

FileTexts ==
    {text \in UNION {[1..n -> Chunks] : n \in 1..MaxStatements} :
        \A i \in 1..(Len(text) - 1) : text[i].semicolon}

\* a file can be gone by the time it is opened
SchemaFiles == [readable : BOOLEAN, text : FileTexts]

SchemaDirs ==
    {[exists |-> FALSE, files |-> <<>>]}
        \cup {[exists |-> TRUE, files |-> f] :
                f \in UNION {[names -> SchemaFiles] : names \in SUBSET FileNames}}

\* str comparison: by the first differing character, a proper prefix first
RECURSIVE StrLess(_, _)
StrLess(a, b) ==
    IF b = <<>> THEN FALSE
    ELSE IF a = <<>> THEN TRUE
    ELSE IF Head(a) # Head(b) THEN Head(a) < Head(b)
    ELSE StrLess(Tail(a), Tail(b))

\* the names ordered by the number their digits stand for
RECURSIVE sorted_numeric(_)
sorted_numeric(names) ==
    IF names = {} THEN <<>>
    ELSE LET least == CHOOSE a \in names :
                          \A b \in names \ {a} :
                              Len(a) < Len(b) \/ (Len(a) = Len(b) /\ StrLess(a, b))
         IN  <<least>> \o sorted_numeric(names \ {least})

\* sorted(schema_dir.glob("*.sql"))
RECURSIVE sorted(_)
sorted(names) ==
    IF names = {} THEN <<>>
    ELSE LET least == CHOOSE a \in names : \A b \in names \ {a} : StrLess(a, b)
         IN  <<least>> \o sorted(names \ {least})

\* the statements of a file: the chunks closed by a semicolon; what follows
\* the last semicolon is never flushed
statements(text) == SelectSeq(text, LAMBDA chunk : chunk.semicolon)

\* init_database has not been called
InitDatabaseIdle ==
    /\ schema_dir = [exists |-> FALSE, files |-> <<>>]
    /\ schema_files = <<>>
    /\ file_no = 0
    /\ stmt_no = 0
    /\ applied = <<>>
    /\ init_pc = "idle"
    /\ init_ret = NotFound

InitSchema ==
    /\ instrument = {}
    /\ now = 0
    /\ op = "init"
    /\ arg_id = 0
    /\ arg = NoArg
    /\ ret = NotFound
    /\ created = NotFound
    /\ lastrowid = 0
    /\ call = [c \in Callers |-> Idle]
    /\ race = NoRace
    /\ schema_dir \in SchemaDirs
    /\ schema_files = <<>>
    /\ file_no = 0
    /\ stmt_no = 0
    /\ applied = <<>>
    /\ init_pc = "start"
    /\ init_ret = NotFound

\* init_database returns
Return(value) ==
    /\ init_pc' = "done"
    /\ init_ret' = Bool(value)

\* the directory is looked up and its files are sorted
ListSchemaFiles ==
    /\ init_pc = "start"
    /\ IF ~schema_dir.exists
       THEN Return(FALSE) /\ UNCHANGED <<schema_files, file_no>>
       ELSE /\ schema_files' = sorted(DOMAIN schema_dir.files)
            /\ IF schema_files' = <<>>
               THEN Return(FALSE) /\ UNCHANGED file_no
               ELSE /\ file_no' = 1
                    /\ init_pc' = "open"
                    /\ UNCHANGED init_ret
    /\ UNCHANGED <<schema_dir, stmt_no, applied, instrument, now, callvars, concurrent>>

\* the next file is opened, read and split into statements
OpenSchemaFile ==
    /\ init_pc = "open"
    /\ IF ~schema_dir.files[schema_files[file_no]].readable
       THEN Return(FALSE) /\ UNCHANGED stmt_no
       ELSE /\ stmt_no' = 1
            /\ init_pc' = "execute"
            /\ UNCHANGED init_ret
    /\ UNCHANGED <<schema_dir, schema_files, file_no, applied,
                   instrument, now, callvars, concurrent>>

\* the statements of the file being executed
CurrentStatements == statements(schema_dir.files[schema_files[file_no]].text)

\* db.conn.execute(statement); db.conn.commit()
ExecuteStatement ==
    /\ init_pc = "execute"
    /\ stmt_no <= Len(CurrentStatements)
    /\ ~CurrentStatements[stmt_no].fails
    /\ applied' = Append(applied, [file |-> schema_files[file_no], stmt |-> stmt_no])
    /\ stmt_no' = stmt_no + 1
    /\ UNCHANGED <<schema_dir, schema_files, file_no, init_pc, init_ret,
                   instrument, now, callvars, concurrent>>

\* the statement raises sqlite3.Error: nothing of it is applied, False is
\* returned
StatementFails ==
    /\ init_pc = "execute"
    /\ stmt_no <= Len(CurrentStatements)
    /\ CurrentStatements[stmt_no].fails
    /\ Return(FALSE)
    /\ UNCHANGED <<schema_dir, schema_files, file_no, stmt_no, applied,
                   instrument, now, callvars, concurrent>>

\* the file is completed: on to the next one, or True after the last
FileCompleted ==
    /\ init_pc = "execute"
    /\ stmt_no > Len(CurrentStatements)
    /\ IF file_no < Len(schema_files)
       THEN /\ file_no' = file_no + 1
            /\ stmt_no' = 0
            /\ init_pc' = "open"
            /\ UNCHANGED init_ret
       ELSE Return(TRUE) /\ UNCHANGED <<file_no, stmt_no>>
    /\ UNCHANGED <<schema_dir, schema_files, applied,
                   instrument, now, callvars, concurrent>>

init_database ==
    \/ ListSchemaFiles
    \/ OpenSchemaFile
    \/ ExecuteStatement
    \/ StatementFails
    \/ FileCompleted

SpecInit == InitSchema /\ [][init_database]_vars

\* --------------------------------------------------- one call at a time

Init ==
    /\ instrument = {}
    /\ now = 0
    /\ op = "init"
    /\ arg_id = 0
    /\ arg = NoArg
    /\ ret = NotFound
    /\ created = NotFound
    /\ lastrowid = 0
    /\ call = [c \in Callers |-> Idle]
    /\ race = NoRace
    /\ InitDatabaseIdle

\* a second passes
Tick ==
    /\ now < MaxTime
    /\ now' = now + 1
    /\ op' = "tick"
    /\ arg_id' = 0
    /\ arg' = NoArg
    /\ ret' = NotFound
    /\ UNCHANGED <<instrument, created, lastrowid, concurrent, initdb>>

CreateInstrument(fields) ==
    LET r == create_instrument(instrument, fields, now)
    IN  /\ \/ UniqueViolation(instrument, InsertParams(fields).isin, 0)
           \/ NextRowId(instrument) <= MaxId
        /\ instrument' = r.tbl
        /\ op' = "create"
        /\ arg_id' = 0
        /\ arg' = fields
        /\ ret' = r.ret
        /\ created' = IF r.ret.kind = "record" THEN r.ret ELSE NotFound
        /\ lastrowid' = IF r.tbl = instrument THEN lastrowid
                        ELSE cursor_lastrowid("INSERT", NextRowId(instrument), lastrowid)
        /\ UNCHANGED <<now, concurrent, initdb>>

GetInstrument(instrument_id) ==
    /\ op' = "get"
    /\ arg_id' = instrument_id
    /\ arg' = NoArg
    /\ ret' = get_instrument(instrument, instrument_id)
    /\ UNCHANGED <<instrument, now, created, lastrowid, concurrent, initdb>>

GetInstruments(query) ==
    /\ op' = "list"
    /\ arg_id' = 0
    /\ arg' = query
    /\ ret' = get_instruments(instrument)
    /\ UNCHANGED <<instrument, now, created, lastrowid, concurrent, initdb>>

UpdateInstrument(instrument_id, patch) ==
    LET r == update_instrument(instrument, instrument_id, patch, now)
    IN  /\ instrument' = r.tbl
        /\ op' = "update"
        /\ arg_id' = instrument_id
        /\ arg' = patch
        /\ ret' = r.ret
        /\ created' = NotFound
        /\ lastrowid' = cursor_lastrowid("UPDATE", 0, lastrowid)
        /\ UNCHANGED <<now, concurrent, initdb>>

DeleteInstrument(instrument_id) ==
    LET r == delete_instrument(instrument, instrument_id)
    IN  /\ instrument' = r.tbl
        /\ op' = "delete"
        /\ arg_id' = instrument_id
        /\ arg' = NoArg
        /\ ret' = r.ret
        /\ created' = NotFound
        /\ lastrowid' = cursor_lastrowid("DELETE", 0, lastrowid)
        /\ UNCHANGED <<now, concurrent, initdb>>

Next ==
    \/ Tick
    \/ \E fields \in CreateInputs : CreateInstrument(fields)
    \/ \E id \in IdInputs : GetInstrument(id)
    \/ \E query \in ListInputs : GetInstruments(query)
    \/ \E id \in IdInputs : \E patch \in UpdateInputs : UpdateInstrument(id, patch)
    \/ \E id \in IdInputs : DeleteInstrument(id)

Spec == Init /\ [][Next]_vars

\* --------------------------------------------------------- row conversion
\* _row_to_instrument applied to rows as anything with access to the database
\* file can have written them: date and timestamp columns hold any text

ConvertRows ==
    [instrument_id : IdInputs,
     isin : {None},
     instrument_type : {"Equity", ""},
     sector : {None},
     statistical_currency : {"USD"},
     last_price_date : {None, "2024-01-15", "", "15.01.2024"},
     created_at : {CURRENT_TIMESTAMP(0), "", "yesterday"},
     updated_at : {CURRENT_TIMESTAMP(0), "", "yesterday"}]

InitConvert ==
    /\ \E row \in ConvertRows : instrument = {row}
    /\ now = 0
    /\ op = "init"
    /\ arg_id = 0
    /\ arg = NoArg
    /\ ret = NotFound
    /\ created = NotFound
    /\ lastrowid = 0
    /\ call = [c \in Callers |-> Idle]
    /\ race = NoRace
    /\ InitDatabaseIdle

\* get_instrument reads the row and converts it
RowToInstrument ==
    /\ op = "init"
    /\ \E row \in instrument :
          /\ arg_id' = row.instrument_id
          /\ ret' = get_instrument(instrument, row.instrument_id)
    /\ op' = "convert"
    /\ UNCHANGED <<instrument, now, arg, created, lastrowid, concurrent, initdb>>

NextConvert == RowToInstrument

SpecConvert == InitConvert /\ [][NextConvert]_vars

\* ------------------------------------------------- interleaved service calls
\* Several callers run service calls at the same time.  Every store call
\* (execute_query, execute_update with its commit) is one atomic step; a
\* service call that makes two store calls can be overtaken between them.

\* caller c commits a statement: the callers waiting for their re-read have
\* been overtaken
Overtake(c) ==
    [d \in Callers |->
        IF d # c /\ call[d].pc = "reread" THEN [call[d] EXCEPT !.overtaken = TRUE]
        ELSE call[d]]

\* create_instrument up to its INSERT
BeginCreate(c, fields) ==
    LET params == InsertParams(fields)
        instrument_id == NextRowId(instrument)
    IN  /\ call[c].pc = "idle"
        /\ UniqueViolation(instrument, params.isin, 0) \/ instrument_id <= MaxId
        /\ IF UniqueViolation(instrument, params.isin, 0)
           THEN /\ call' = [call EXCEPT ![c] = [pc |-> "idle", op |-> "create", id |-> 0,
                                                patch |-> fields, rows |-> 0, overtaken |-> FALSE,
                                                ret |-> Raised("IntegrityError")]]
                /\ UNCHANGED instrument
           ELSE /\ instrument' = SqlInsert(instrument, params, instrument_id, now)
                /\ call' = [Overtake(c) EXCEPT ![c] =
                                [pc |-> "reread", op |-> "create", id |-> instrument_id,
                                 patch |-> fields, rows |-> 1, overtaken |-> FALSE,
                                 ret |-> NotFound]]
        /\ race' = NoRace
        /\ UNCHANGED <<now, callvars, initdb>>

\* another caller is between the UPDATE and the re-read of an update_instrument
\* that changed the row with this id, and no statement has been committed since
\* that UPDATE
MidUpdate(c, instrument_id) ==
    {d \in Callers \ {c} : /\ call[d].pc = "reread"
                           /\ call[d].op = "update"
                           /\ call[d].id = instrument_id
                           /\ call[d].rows = 1
                           /\ ~call[d].overtaken}

\* update_instrument up to its UPDATE (the whole call when nothing is supplied
\* or the store rejects the statement)
BeginUpdate(c, instrument_id, patch) ==
    LET sets == updates(patch)
        rows == Cardinality(execute_query_by_id(instrument, instrument_id))
    IN  /\ call[c].pc = "idle"
        /\ IF sets = <<>>
           THEN /\ call' = [call EXCEPT ![c] = [pc |-> "idle", op |-> "update",
                                                id |-> instrument_id, patch |-> patch,
                                                rows |-> 0, overtaken |-> FALSE,
                                                ret |-> get_instrument(instrument, instrument_id)]]
                /\ race' = NoRace
                /\ UNCHANGED instrument
           ELSE IF SqlUpdateFails(instrument, sets, instrument_id)
           THEN /\ call' = [call EXCEPT ![c] = [pc |-> "idle", op |-> "update",
                                                id |-> instrument_id, patch |-> patch,
                                                rows |-> 0, overtaken |-> FALSE,
                                                ret |-> Raised("IntegrityError")]]
                /\ race' = NoRace
                /\ UNCHANGED instrument
           ELSE /\ instrument' = SqlUpdate(instrument, sets, instrument_id, now)
                /\ call' = [Overtake(c) EXCEPT ![c] =
                                [pc |-> "reread", op |-> "update", id |-> instrument_id,
                                 patch |-> patch, rows |-> rows, overtaken |-> FALSE,
                                 ret |-> NotFound]]
                /\ race' = IF rows = 1 /\ MidUpdate(c, instrument_id) # {}
                           THEN [id |-> instrument_id,
                                 first |-> CHOOSE d \in MidUpdate(c, instrument_id) : TRUE,
                                 last |-> c]
                           ELSE NoRace
        /\ UNCHANGED <<now, callvars, initdb>>

\* the get_instrument that ends create_instrument and update_instrument
Reread(c) ==
    /\ call[c].pc = "reread"
    /\ call' = [call EXCEPT ![c].pc = "idle",
                            ![c].ret = get_instrument(instrument, call[c].id)]
    /\ UNCHANGED <<instrument, now, callvars, race, initdb>>

\* delete_instrument up to its existence check
BeginDelete(c, instrument_id) ==
    LET found == get_instrument(instrument, instrument_id)
    IN  /\ call[c].pc = "idle"
        /\ call' = [call EXCEPT ![c] =
                        [pc |-> IF found.kind = "record" THEN "delete" ELSE "idle",
                         op |-> "delete", id |-> instrument_id, patch |-> NoArg,
                         rows |-> 0, overtaken |-> FALSE,
                         ret |-> IF found.kind = "error" THEN found
                                 ELSE IF found.kind = "none" THEN Bool(FALSE)
                                 ELSE NotFound]]
        /\ race' = NoRace
        /\ UNCHANGED <<instrument, now, callvars, initdb>>

\* the DELETE that ends delete_instrument
Delete(c) ==
    /\ call[c].pc = "delete"
    /\ call' = [Overtake(c) EXCEPT
                            ![c].pc = "idle",
                            ![c].rows = Cardinality(execute_query_by_id(instrument, call[c].id)),
                            ![c].ret = Bool(TRUE)]
    /\ instrument' = SqlDelete(instrument, call[c].id)
    /\ UNCHANGED <<now, callvars, race, initdb>>

NextConcurrent ==
    \/ \E c \in Callers : \E fields \in ConcurrentCreateInputs : BeginCreate(c, fields)
    \/ \E c \in Callers : \E id \in IdInputs : \E patch \in ConcurrentUpdateInputs :
          BeginUpdate(c, id, patch)
    \/ \E c \in Callers : Reread(c)
    \/ \E c \in Callers : \E id \in IdInputs : BeginDelete(c, id)
    \/ \E c \in Callers : Delete(c)

SpecConcurrent == Init /\ [][NextConcurrent]_vars

\* -------------------------------------------------------------- properties

Exists(tbl, id) == execute_query_by_id(tbl, id) # {}

RowOf(tbl, id) == CHOOSE r \in execute_query_by_id(tbl, id) : TRUE

\* the fields a request supplies (non-null)
Supplied(request) == {f \in FieldSet : request[f] # None}

\* the clock value a stored timestamp text stands for
TimeOf(text) == CHOOSE t \in 0..(MaxTime + 1) : CURRENT_TIMESTAMP(t) = text

\* the text a supplied value is stored as
StoredAs(f, v) == IF f = "last_price_date" THEN isoformat(v) ELSE v

\* C1: a get_instrument for the id a create_instrument has just returned (no
\* other create, update or delete call in between) returns a record, equal to
\* the record the create returned on every caller-supplied field (and on its id)
C1_RoundTrip ==
    (op = "get" /\ created.kind = "record" /\ arg_id = created.rec.instrument_id)
        => /\ ret.kind = "record"
           /\ ret.rec.instrument_id = created.rec.instrument_id
           /\ \A f \in FieldSet : ret.rec[f] = created.rec[f]

C1_Witness ==
    /\ op = "get"
    /\ created.kind = "record"
    /\ arg_id = created.rec.instrument_id
    /\ ret.kind = "record"
    /\ ret.rec.last_price_date # None
    /\ Cardinality(instrument) = 2

\* C2: every create_instrument that returns a record returns one with a positive
\* instrument_id, created_at and updated_at set, and every field equal to the
\* value the caller supplied (absent where none was supplied)
C2_CreateEchoesInput ==
    (op = "create" /\ ret.kind = "record")
        => /\ ret.rec.instrument_id > 0
           /\ ret.rec.created_at # None
           /\ ret.rec.updated_at # None
           /\ \A f \in FieldSet : ret.rec[f] = arg[f]

\* C3: an update_instrument on an existing id leaves every other row as it was
\* and, in the row with that id, every column the patch does not supply except
\* updated_at; unless the store rejects the statement, every supplied column
\* holds the supplied value afterwards
C3_UpdateFrame ==
    [][(op' = "update" /\ Exists(instrument, arg_id'))
        => /\ {r \in instrument' : r.instrument_id # arg_id'}
                = {r \in instrument : r.instrument_id # arg_id'}
           /\ Cardinality(execute_query_by_id(instrument', arg_id')) = 1
           /\ LET old == RowOf(instrument, arg_id')
                  new == RowOf(instrument', arg_id')
              IN  /\ new.created_at = old.created_at
                  /\ \A f \in FieldSet \ Supplied(arg') : new[f] = old[f]
                  /\ ret' # Raised("IntegrityError")
                        => \A f \in Supplied(arg') : new[f] = StoredAs(f, arg'[f])
                  /\ Supplied(arg') = {} => new.updated_at = old.updated_at]_vars

C3_Witness ==
    /\ op = "update"
    /\ ret.kind = "record"
    /\ Supplied(arg) = {"sector", "last_price_date"}
    /\ Cardinality(instrument) = 2
    /\ RowOf(instrument, arg_id).isin # None
    /\ RowOf(instrument, arg_id).updated_at # RowOf(instrument, arg_id).created_at

\* C4: an update_instrument that supplies no field, on an existing id, writes
\* nothing and returns the record of the row as it is stored
C4_EmptyUpdateReturnsRecord ==
    [][(op' = "update" /\ Supplied(arg') = {} /\ Exists(instrument, arg_id'))
        => /\ instrument' = instrument
           /\ ret'.kind = "record"
           /\ ret'.rec.instrument_id = arg_id']_vars

\* C5: for an id without a stored row, get_instrument and update_instrument
\* return None and delete_instrument returns False; none raises, none changes
\* the table
C5_NotFound ==
    [][(op' \in {"get", "update", "delete"} /\ ~Exists(instrument, arg_id'))
        => /\ instrument' = instrument
           /\ ret' = IF op' = "delete" THEN Bool(FALSE) ELSE NotFound]_vars

C5_Witness ==
    /\ op = "update"
    /\ Supplied(arg) # {}
    /\ ~Exists(instrument, arg_id)
    /\ instrument # {}
    /\ ret = NotFound

\* the records of a list result without those of one id
Without(items, id) == SelectSeq(items, LAMBDA rec : rec.instrument_id # id)

\* C6: after a delete_instrument that returned True, get_instrument of that id
\* returns None, get_instruments holds no record with that id, and every other
\* row is still stored and read as before: get_instrument of any other id gives
\* what it gave before, and a list that could be read before is the same list
\* without the deleted record
C6_DeleteRemoves ==
    [][(op' = "delete" /\ ret' = Bool(TRUE))
        => /\ get_instrument(instrument', arg_id') = NotFound
           /\ instrument' = {r \in instrument : r.instrument_id # arg_id'}
           /\ \A id \in RowIds(instrument) \ {arg_id'} :
                 get_instrument(instrument', id) = get_instrument(instrument, id)
           /\ LET before == get_instruments(instrument)
                  after == get_instruments(instrument')
              IN  /\ after.kind = "list"
                        => \A i \in 1..Len(after.items) :
                              after.items[i].instrument_id # arg_id'
                  /\ before.kind = "list"
                        => /\ after.kind = "list"
                           /\ after.items = Without(before.items, arg_id')]_vars

C6_Witness ==
    /\ op = "delete"
    /\ ret = Bool(TRUE)
    /\ ~Exists(instrument, arg_id)
    /\ get_instruments(instrument).kind = "list"
    /\ Len(get_instruments(instrument).items) = 1

\* C7: in every state that create, update and delete calls lead to,
\* get_instruments returns a list with exactly one record per stored row, in
\* strictly ascending order of instrument_id (the empty list for an empty table)
C7_ListComplete ==
    LET l == get_instruments(instrument)
    IN  /\ l.kind = "list"
        /\ Len(l.items) = Cardinality(instrument)
        /\ {l.items[i].instrument_id : i \in 1..Len(l.items)} = RowIds(instrument)
        /\ \A i \in 1..(Len(l.items) - 1) :
              l.items[i].instrument_id < l.items[i + 1].instrument_id

\* C8: no two stored rows share an instrument_id, a create_instrument returns
\* an id that no row stored before the call has, and an update_instrument
\* leaves the ids of the stored rows as they were
C8_IdsUniqueImmutable ==
    [][/\ \A r1, r2 \in instrument' : r1.instrument_id = r2.instrument_id => r1 = r2
       /\ (op' = "create" /\ ret'.kind = "record")
            => /\ ret'.rec.instrument_id > 0
               /\ ret'.rec.instrument_id \notin RowIds(instrument)
               /\ ret'.rec.instrument_id \in RowIds(instrument')
       /\ op' = "update"
            => /\ RowIds(instrument') = RowIds(instrument)
               /\ Cardinality(instrument') = Cardinality(instrument)]_vars

C8_Witness ==
    /\ op = "update"
    /\ ret.kind = "record"
    /\ Supplied(arg) # {}
    /\ RowIds(instrument) = {1, 2}
    /\ arg_id = 1

\* C9: created_at of a row is the store's time at its insertion, and no
\* update_instrument, with or without supplied fields, changes it
C9_CreatedAtFixed ==
    [][/\ (op' = "create" /\ instrument' # instrument)
            => \A r \in instrument' \ instrument :
                  r.created_at = CURRENT_TIMESTAMP(now)
       /\ op' = "update"
            => \A r \in instrument : \A q \in instrument' :
                  q.instrument_id = r.instrument_id => q.created_at = r.created_at]_vars

C9_Witness ==
    /\ op = "update"
    /\ Exists(instrument, arg_id)
    /\ Supplied(arg) # {}
    /\ TimeOf(RowOf(instrument, arg_id).created_at) < now
    /\ TimeOf(RowOf(instrument, arg_id).updated_at) = now

\* C10 as stated: every update_instrument that returns a record leaves the
\* row's updated_at at the time of the call
C10_EveryUpdateRefreshes ==
    [][(op' = "update" /\ ret'.kind = "record")
        => RowOf(instrument', arg_id').updated_at = CURRENT_TIMESTAMP(now)]_vars

\* C10 amended: every update_instrument that supplies at least one field and
\* returns a record leaves the row's updated_at at the time of the call, one
\* that supplies none leaves updated_at as it was; no update_instrument
\* decreases updated_at, and updated_at is never earlier than created_at
C10_SuppliedUpdateRefreshes ==
    [][/\ (op' = "update" /\ ret'.kind = "record")
            => RowOf(instrument', arg_id').updated_at =
                  IF Supplied(arg') # {} THEN CURRENT_TIMESTAMP(now)
                  ELSE RowOf(instrument, arg_id').updated_at
       /\ op' = "update"
            => \A r \in instrument : \A q \in instrument' :
                  q.instrument_id = r.instrument_id
                     => TimeOf(r.updated_at) <= TimeOf(q.updated_at)
       /\ \A r \in instrument' : TimeOf(r.created_at) <= TimeOf(r.updated_at)]_vars

C10_Witness ==
    /\ op = "update"
    /\ ret.kind = "record"
    /\ Supplied(arg) # {}
    /\ ret.rec.updated_at = datetime_fromisoformat(CURRENT_TIMESTAMP(now))
    /\ ret.rec.created_at # ret.rec.updated_at

\* C11: converting a stored row whose instrument_type is null or outside the
\* enumeration fails with an error that names the row's id: get_instrument of
\* such a row never returns a record
C11_InvalidClassificationFails ==
    (op = "get" /\ Exists(instrument, arg_id)
        /\ RowOf(instrument, arg_id).instrument_type \notin InstrumentType_values)
        => ret = ValueError(RowOf(instrument, arg_id))

\* the stored rows whose conversion fails
Failing(tbl) == {r \in tbl : row_to_instrument(r).kind = "error"}

C13_DuplicateIsinFails ==
    [][(op' = "create" /\ arg'.isin # None
            /\ \E r \in instrument : r.isin = arg'.isin)
        => /\ ret'.kind = "error"
           /\ instrument' = instrument]_vars

C13_Witness ==
    /\ op = "create"
    /\ ret = Raised("IntegrityError")
    /\ arg.isin # None
    /\ \E r \in instrument : r.isin = arg.isin
    /\ Cardinality(instrument) = 2

\* C14: a create_instrument whose instrument_type is outside the enumeration,
\* or whose supplied statistical_currency is outside the currencies, raises and
\* stores no row
C14_CreateRejectsInvalidEnum ==
    [][(op' = "create"
            /\ \/ arg'.instrument_type \notin InstrumentType_values
               \/ arg'.statistical_currency \notin Currency_values \cup {None})
        => /\ ret'.kind = "error"
           /\ instrument' = instrument]_vars

\* C15: every stored row has a non-null instrument_type, whatever create,
\* update and delete calls have run
C15_RequiredNeverNull ==
    \A r \in instrument : r.instrument_type # None

C15_Witness ==
    /\ op = "update"
    /\ ret.kind = "record"
    /\ Supplied(arg) # {}
    /\ arg.instrument_type = None
    /\ RowOf(instrument, arg_id).instrument_type # None
    /\ RowOf(instrument, arg_id).updated_at # RowOf(instrument, arg_id).created_at

\* C16: no update_instrument turns a present field of a record into an absent
\* one: whenever the row reads as a record before and after the call, every
\* field that was present is present afterwards, and a field the patch leaves
\* null keeps its value
C16_UpdateNeverClears ==
    [][(op' = "update" /\ Exists(instrument, arg_id')
            /\ get_instrument(instrument, arg_id').kind = "record"
            /\ get_instrument(instrument', arg_id').kind = "record")
        => LET before == get_instrument(instrument, arg_id').rec
               after == get_instrument(instrument', arg_id').rec
           IN  /\ \A f \in FieldSet : before[f] # None => after[f] # None
               /\ \A f \in FieldSet \ Supplied(arg') : after[f] = before[f]]_vars

\* C17: a create_instrument or update_instrument that raises leaves the table
\* as it was before the call (no failure is reported after a committed write)
C17_FailedWriteLeavesRow ==
    [][(op' \in {"create", "update"} /\ ret'.kind = "error")
        => instrument' = instrument]_vars

\* the rows the UPDATE / DELETE of a call changes
Affected(tbl, id) == Cardinality(execute_query_by_id(tbl, id))

\* C18: execute_update returns the id of the inserted row for an INSERT and the
\* number of affected rows for an UPDATE or a DELETE
C18_WriteResult ==
    [][/\ (op' = "create" /\ instrument' # instrument)
            => lastrowid' \in RowIds(instrument') \ RowIds(instrument)
       /\ (op' = "update" /\ Supplied(arg') # {}
                /\ ~SqlUpdateFails(instrument, updates(arg'), arg_id'))
            => lastrowid' = Affected(instrument, arg_id')
       /\ (op' = "delete" /\ ret' = Bool(TRUE))
            => lastrowid' = Affected(instrument, arg_id')]_vars

\* the texts a response detail is made of
DetailParts(resp) == {resp.detail[i] : i \in 1..Len(resp.detail)}

\* C20: on every route, a service call that raises gives a 500 response whose
\* detail does not contain the text of the raised error
C20_SafeServerError ==
    (op \in {"list", "get", "create", "update", "delete"} /\ ret.kind = "error")
        => LET resp == route(op, arg_id, arg, ret)
           IN  /\ resp.status_code = 500
               /\ str(ret) \notin DetailParts(resp)

\* both callers have returned from their calls
AllReturned == \A c \in Callers : call[c].pc = "idle"

\* C19: two update_instrument calls of the same stored id overlap (the UPDATE
\* of one is committed between the UPDATE and the re-read of the other).  Once
\* both have returned, both have returned a record, and every field both
\* patches supply holds the value of the call whose UPDATE was committed last
C19_LastWriteWins ==
    (race # NoRace /\ AllReturned)
        => /\ \A c \in Callers : call[c].ret.kind = "record"
           /\ Exists(instrument, race.id)
           /\ \A f \in Supplied(call[race.first].patch) \cap Supplied(call[race.last].patch) :
                 RowOf(instrument, race.id)[f] = StoredAs(f, call[race.last].patch[f])

\* the UPDATE of B ran between the UPDATE of A and A's re-read, on the same
\* field with another value
C19_Witness ==
    /\ race # NoRace
    /\ AllReturned
    /\ race.first = "A"
    /\ race.last = "B"
    /\ call["A"].patch.sector # None
    /\ call["B"].patch.sector # None
    /\ call["A"].patch.sector # call["B"].patch.sector
    /\ call["A"].ret.kind = "record"
    /\ call["A"].ret.rec.sector = call["B"].patch.sector
    /\ RowOf(instrument, race.id).sector = call["B"].patch.sector

\* caller c has returned from a call of kind o
Returned(c, o) == call[c].pc = "idle" /\ call[c].op = o

\* the request bodies that parse to a patch: its supplied fields with their
\* values, in every order a caller can write them
Bodies(patch) ==
    LET n == Cardinality(Supplied(patch))
    IN  {[i \in 1..n |-> <<order[i], patch[order[i]]>>] :
            order \in {o \in [1..n -> Supplied(patch)] :
                          \A i, j \in 1..n : o[i] = o[j] => i = j}}

\* C25: the columns of the UPDATE statement an update_instrument generates are
\* the supplied fields in the order of field_mapping, whatever order the caller
\* wrote them in, followed by updated_at; the parameters are the supplied
\* values in the same order followed by the id, so two request bodies with the
\* same fields and values give the same statement and parameter list
C25_FixedColumnOrder ==
    (op = "update" /\ Supplied(arg) # {})
        => LET cols == SelectSeq(Fields, LAMBDA f : f \in Supplied(arg))
           IN  /\ \A body \in Bodies(arg) :
                     /\ InstrumentUpdate(body) = arg
                     /\ update_statement(body, arg_id).columns = cols \o <<"updated_at">>
                     /\ update_statement(body, arg_id).params =
                           [i \in 1..Len(cols) |-> StoredAs(cols[i], arg[cols[i]])]
                               \o <<arg_id>>
               /\ \A b1, b2 \in Bodies(arg) :
                     update_statement(b1, arg_id) = update_statement(b2, arg_id)

C25_Witness ==
    /\ op = "update"
    /\ Supplied(arg) = {"sector", "last_price_date"}
    /\ Cardinality(Bodies(arg)) = 2
    /\ arg_id = 2
    /\ ret.kind = "record"
    /\ update_statement(<<<<"last_price_date", arg.last_price_date>>,
                          <<"sector", arg.sector>>>>, arg_id).columns
          = <<"sector", "last_price_date", "updated_at">>

\* init_database has returned False because a statement of the file it was
\* executing failed
StatementFailed ==
    /\ init_pc = "done"
    /\ init_ret = Bool(FALSE)
    /\ file_no > 0
    /\ stmt_no \in 1..Len(CurrentStatements)
    /\ CurrentStatements[stmt_no].fails

\* C22: when a statement of a schema file fails, initialisation is aborted and
\* no statement of that file is applied to the database
C22_AllOrNothingPerFile ==
    StatementFailed
        => \A i \in 1..Len(applied) : applied[i].file # schema_files[file_no]

\* the statements of the schema file with this name
StatementsOf(name) == statements(schema_dir.files[name].text)

\* this statement was applied before position i
AppliedBefore(name, k, i) ==
    \E j \in 1..(i - 1) : applied[j] = [file |-> name, stmt |-> k]

\* the schema files with a failing statement
FailingFiles ==
    {name \in DOMAIN schema_dir.files :
        \E k \in 1..Len(StatementsOf(name)) : StatementsOf(name)[k].fails}

\* C23: statements are applied file by file in lexical order of the file
\* names and, within a file, in the file's order, none skipped; no statement
\* of a file that comes after a file with a failing statement is ever
\* applied, and with such a file init_database returns False
C23_LexicalOrderStopAtFailure ==
    /\ \A i \in 1..Len(applied) :
          /\ \A k \in 1..(applied[i].stmt - 1) : AppliedBefore(applied[i].file, k, i)
          /\ \A name \in DOMAIN schema_dir.files :
                StrLess(name, applied[i].file)
                    => \A k \in 1..Len(StatementsOf(name)) : AppliedBefore(name, k, i)
          /\ \A j \in 1..(i - 1) :
                \/ StrLess(applied[j].file, applied[i].file)
                \/ applied[j].file = applied[i].file /\ applied[j].stmt < applied[i].stmt
          /\ \A name \in FailingFiles : ~StrLess(name, applied[i].file)
    /\ (init_pc = "done" /\ FailingFiles # {}) => init_ret = Bool(FALSE)

\* "10_..." fails in its second statement: its first stays the only statement
\* applied, "2_..." is not executed
C23_Witness ==
    /\ init_pc = "done"
    /\ init_ret = Bool(FALSE)
    /\ schema_files = <<(<<1, 0>>), (<<2>>)>>
    /\ file_no = 1
    /\ stmt_no = 2
    /\ applied = <<[file |-> <<1, 0>>, stmt |-> 1]>>
    /\ Len(StatementsOf(<<2>>)) = 2
    /\ ~StatementsOf(<<2>>)[1].fails

\* a date or timestamp text that is empty or does not parse
Unparseable(text, texts) == text # None /\ text \notin texts

\* C24: converting a row whose date or timestamp column (created_at and
\* updated_at included) holds an empty or unparseable text does not raise: it
\* gives a record in which that field is absent (the required classification
\* being valid)
C24_BadDatesBecomeAbsent ==
    (op = "convert" /\ Truthy(RowOf(instrument, arg_id).instrument_type))
        => LET row == RowOf(instrument, arg_id)
           IN  /\ ret.kind = "record"
               /\ Unparseable(row.last_price_date, DateTexts)
                     => ret.rec.last_price_date = None
               /\ Unparseable(row.created_at, TimestampTexts)
                     => ret.rec.created_at = None
               /\ Unparseable(row.updated_at, TimestampTexts)
                     => ret.rec.updated_at = None

\* the stored rows that match every filter the query supplies
Matching(tbl, query) ==
    {r \in tbl : /\ query.instrument_type # None => r.instrument_type = query.instrument_type
                 /\ query.sector # None => r.sector = query.sector}

\* C21: the list route answers with exactly the records at positions
\* offset .. offset+limit-1 of the id-ascending sequence of the stored rows
\* that match every supplied filter: never more than limit records, in
\* ascending id order
C21_ListPage ==
    op = "list"
        => LET resp == route(op, arg_id, arg, ret)
               match == SortById(Matching(instrument, arg))
               page == Slice(match, arg.offset, arg.limit)
           IN  /\ resp.status_code = 200
               /\ Len(resp.body) <= arg.limit
               /\ [i \in 1..Len(resp.body) |-> resp.body[i].instrument_id]
                     = [i \in 1..Len(page) |-> page[i].instrument_id]

\* C26: a delete_instrument returns True only if its own DELETE removed the
\* row, whatever calls of the other caller ran between its existence check and
\* its DELETE (so at most one call returns True for one created row)
C26_DeleteTrueOnlyIfRemoved ==
    \A c \in Callers :
        (Returned(c, "delete") /\ call[c].ret = Bool(TRUE)) => call[c].rows = 1

\* C27: a create_instrument whose INSERT succeeded returns a record with the
\* id the INSERT assigned, whatever calls of the other caller ran between the
\* INSERT and the re-read
C27_CreateReturnsRecord ==
    \A c \in Callers :
        (Returned(c, "create") /\ call[c].rows = 1)
            => /\ call[c].ret.kind = "record"
               /\ call[c].ret.rec.instrument_id = call[c].id

\* C28: an update_instrument returns None only if its UPDATE changed no row,
\* and a record it returns holds the patch's value in every supplied field,
\* whatever calls of the other caller ran between the UPDATE and the re-read
C28_UpdateResultReflectsWrite ==
    \A c \in Callers :
        (Returned(c, "update") /\ Supplied(call[c].patch) # {})
            => /\ call[c].ret = NotFound => call[c].rows = 0
               /\ call[c].ret.kind = "record"
                    => \A f \in Supplied(call[c].patch) :
                          call[c].ret.rec[f] = call[c].patch[f]

\* C29: two update_instrument calls of the same stored id overlap and supply
\* disjoint sets of fields.  Once both have returned, the row holds the values
\* of both patches
C29_DisjointUpdatesMerge ==
    (race # NoRace /\ AllReturned
        /\ Supplied(call[race.first].patch) \cap Supplied(call[race.last].patch) = {})
        => /\ Exists(instrument, race.id)
           /\ \A c \in {race.first, race.last} : \A f \in Supplied(call[c].patch) :
                 RowOf(instrument, race.id)[f] = StoredAs(f, call[c].patch[f])

C29_Witness ==
    /\ race # NoRace
    /\ AllReturned
    /\ race.first = "A"
    /\ race.last = "B"
    /\ Supplied(call["A"].patch) = {"sector"}
    /\ Supplied(call["B"].patch) = {"last_price_date"}
    /\ RowOf(instrument, race.id).isin = None
    /\ RowOf(instrument, race.id).sector = call["A"].patch.sector
    /\ RowOf(instrument, race.id).last_price_date # None
    /\ call["A"].ret.kind = "record"
    /\ call["A"].ret.rec.last_price_date = call["B"].patch.last_price_date

\* C30: a delete_instrument of a stored row whose conversion fails raises the
\* conversion error, returns neither True nor False, and leaves the row stored
C30_DeleteUnconvertibleRaises ==
    [][(op' = "delete" /\ Exists(instrument, arg_id')
            /\ RowOf(instrument, arg_id') \in Failing(instrument))
        => /\ ret' = ValueError(RowOf(instrument, arg_id'))
           /\ instrument' = instrument]_vars

C30_Witness ==
    /\ op = "delete"
    /\ ret.kind = "error"
    /\ Exists(instrument, arg_id)
    /\ ~Truthy(RowOf(instrument, arg_id).instrument_type)
    /\ Cardinality(instrument) = 2

====
